---- MODULE Spec2Model ----
(***************************************************************************)
(* SRP6 demo (src/rust/src/main.rs) and its SHA3-256 (sha3_custom.rs).     *)
(*                                                                         *)
(* Representation.  A u64 lane is a tuple of 64 bits, position z + 1       *)
(* holding bit z (bit 0 the least significant).  The Keccak state          *)
(* state[y][x] of the source is state[y + 1][x + 1] here.  A byte is a     *)
(* number 0..255, a String its sequence of ASCII codes.  A BigUint that    *)
(* stays below 2^31 in the model is a natural number; the identity hash    *)
(* (256 bits) and the client's exponent are sequences of digits in base    *)
(* LIMB, most significant first, without leading zeros.                    *)
(***************************************************************************)
EXTENDS Integers, Sequences, FiniteSets, TLC

\* ------------------------------------------------------------- bounds
\* pad is explored on every input length 0..MaxPadLen
MaxPadLen == 280
\* digest is explored on the test vectors and on "a" * (68 * i), i in 1..MaxHalfBlocks
MaxHalfBlocks == 3
\* the modulus N ranges over 1..MaxModulus, the generator over 0..MaxGenerator,
\* the multiplier over 0..MaxMultiplier
MaxModulus == 5
MaxGenerator == 2
MaxMultiplier == 2
\* the random draws: salt in 0..MaxSalt, scrambler in 0..MaxScrambler, private keys in 0..MaxKey
MaxSalt == 0
MaxScrambler == 1
MaxKey == 2
\* a forged public key handed to compute_session_key ranges over 0..MaxForged
MaxForged == 0

\* ---------------------------------------------------------- constants
ROUNDS == 24
RATE == 1088
OUTPUT_LENGTH == 256

\* each constant as its 16 hexadecimal digits, most significant first
ROUND_CONSTANTS == <<
    <<0,0,0,0,0,0,0,0,0,0,0,0,0,0,0,1>>,
    <<0,0,0,0,0,0,0,0,0,0,0,0,8,0,8,2>>,
    <<8,0,0,0,0,0,0,0,0,0,0,0,8,0,8,10>>,
    <<8,0,0,0,0,0,0,0,8,0,0,0,8,0,0,0>>,
    <<0,0,0,0,0,0,0,0,0,0,0,0,8,0,8,11>>,
    <<0,0,0,0,0,0,0,0,8,0,0,0,0,0,0,1>>,
    <<8,0,0,0,0,0,0,0,8,0,0,0,8,0,8,1>>,
    <<8,0,0,0,0,0,0,0,0,0,0,0,8,0,0,9>>,
    <<0,0,0,0,0,0,0,0,0,0,0,0,0,0,8,10>>,
    <<0,0,0,0,0,0,0,0,0,0,0,0,0,0,8,8>>,
    <<0,0,0,0,0,0,0,0,8,0,0,0,8,0,0,9>>,
    <<0,0,0,0,0,0,0,0,8,0,0,0,0,0,0,10>>,
    <<0,0,0,0,0,0,0,0,8,0,0,0,8,0,8,11>>,
    <<8,0,0,0,0,0,0,0,0,0,0,0,0,0,8,11>>,
    <<8,0,0,0,0,0,0,0,0,0,0,0,8,0,8,9>>,
    <<8,0,0,0,0,0,0,0,0,0,0,0,8,0,0,3>>,
    <<8,0,0,0,0,0,0,0,0,0,0,0,8,0,0,2>>,
    <<8,0,0,0,0,0,0,0,0,0,0,0,0,0,8,0>>,
    <<0,0,0,0,0,0,0,0,0,0,0,0,8,0,0,10>>,
    <<8,0,0,0,0,0,0,0,8,0,0,0,0,0,0,10>>,
    <<8,0,0,0,0,0,0,0,8,0,0,0,8,0,8,1>>,
    <<8,0,0,0,0,0,0,0,0,0,0,0,8,0,8,0>>,
    <<0,0,0,0,0,0,0,0,8,0,0,0,0,0,0,1>>,
    <<8,0,0,0,0,0,0,0,8,0,0,0,8,0,0,8>>
>>

RHO_OFFSETS == <<
    0, 1, 62, 28, 27, 36, 44, 6, 55, 20, 3, 10, 43, 25, 39, 41, 45, 15, 21, 8, 18, 2, 61, 56, 14
>>

\* ------------------------------------------------------------ helpers
\* A function over 1..n as an explicit tuple (TLC otherwise keeps the constructor
\* unevaluated and re-evaluates it on every application).  For the same reason a value
\* that a recursion hands on is bound once, as the element v of {v}, in
\* CHOOSE r \in {F(v) : v \in {e}} : TRUE, which is F(e).
Tup(s) == s \o <<>>

Min(a, b) == IF a < b THEN a ELSE b

\* bit j of the number v
BitOf(v, j) == (v \div (2 ^ j)) % 2

\* u8 | u8
OrByte(a, b) ==
    LET bit(j) == IF BitOf(a, j) = 1 \/ BitOf(b, j) = 1 THEN 2 ^ j ELSE 0
    IN bit(0) + bit(1) + bit(2) + bit(3) + bit(4) + bit(5) + bit(6) + bit(7)

\* u64 ^ u64, u64 & u64, !u64
Xor64(a, b) == Tup([z \in 1..64 |-> (a[z] + b[z]) % 2])
And64(a, b) == Tup([z \in 1..64 |-> a[z] * b[z]])
Not64(a) == Tup([z \in 1..64 |-> 1 - a[z]])
\* u64 << n and u64 >> n (bits shifted out are lost, zeros shifted in)
Shl64(a, n) == Tup([z \in 1..64 |-> IF z - n >= 1 THEN a[z - n] ELSE 0])
Shr64(a, n) == Tup([z \in 1..64 |-> IF z + n <= 64 THEN a[z + n] ELSE 0])
Or64(a, b) == Tup([z \in 1..64 |-> IF a[z] = 1 \/ b[z] = 1 THEN 1 ELSE 0])

ZeroLane == Tup([z \in 1..64 |-> 0])

\* the u64 written as 16 hexadecimal digits
LaneOfHex(h) == Tup([z \in 1..64 |-> BitOf(h[16 - ((z - 1) \div 4)], (z - 1) % 4)])

\* ------------------------------------------------------------ SHA3_256
\* SHA3_256::new
NewState == Tup([y \in 1..5 |-> Tup([x \in 1..5 |-> ZeroLane])])

\* a rotate_left that shifts the bits out instead of wrapping them around
rotate_left_Shifting(value, positions) ==
    LET p == positions % 64
    IN IF p = 0 THEN value ELSE Shl64(value, p)

\* SHA3_256::rotate_left
rotate_left(value, positions) ==
    LET p == positions % 64
    IN IF p = 0 THEN value ELSE Or64(Shl64(value, p), Shr64(value, 64 - p))

\* SHA3_256::bytes_to_lane
bytes_to_lane(bytes) ==
    LET len == Min(Len(bytes), 8)
    IN Tup([z \in 1..64 |->
           IF (z - 1) \div 8 < len THEN BitOf(bytes[((z - 1) \div 8) + 1], (z - 1) % 8) ELSE 0])

\* SHA3_256::lane_to_bytes
lane_to_bytes(lane) ==
    Tup([i \in 1..8 |->
        LET b(j) == lane[8 * (i - 1) + j + 1] * (2 ^ j)
        IN b(0) + b(1) + b(2) + b(3) + b(4) + b(5) + b(6) + b(7)])

\* a pad that assigns 0x80 to the last byte instead of ORing it in
pad_AssignsLastByte(input, suffix) ==
    LET rate_bytes == RATE \div 8
        input_len == Len(input)
        pad_len == rate_bytes - (input_len % rate_bytes)
        padded == input \o <<suffix>> \o [i \in 1..(pad_len - 1) |-> 0]
    IN IF Len(padded) > 0
       THEN [padded EXCEPT ![Len(padded)] = 128]
       ELSE padded

\* SHA3_256::pad
pad(input, suffix) ==
    LET rate_bytes == RATE \div 8
        input_len == Len(input)
        pad_len == rate_bytes - (input_len % rate_bytes)
        padded == input \o <<suffix>> \o [i \in 1..(pad_len - 1) |-> 0]
    IN IF Len(padded) > 0
       THEN [padded EXCEPT ![Len(padded)] = OrByte(padded[Len(padded)], 128)]
       ELSE padded

\* slice::chunks(n): the number of chunks, and the i-th chunk (i from 0)
NumChunks(s, n) == (Len(s) + n - 1) \div n
Chunk(s, n, i) == SubSeq(s, n * i + 1, Min(n * i + n, Len(s)))

\* an absorb that indexes the state as state[x][y]
absorb_Transposed(st, chunk) ==
    Tup([yy \in 1..5 |-> Tup([xx \in 1..5 |->
        LET i == 5 * (xx - 1) + (yy - 1)
        IN IF i < NumChunks(chunk, 8)
           THEN Xor64(st[yy][xx], bytes_to_lane(Chunk(chunk, 8, i)))
           ELSE st[yy][xx]])])

\* SHA3_256::absorb
absorb(st, chunk) ==
    Tup([yy \in 1..5 |-> Tup([xx \in 1..5 |->
        LET i == 5 * (yy - 1) + (xx - 1)
        IN IF i < NumChunks(chunk, 8)
           THEN Xor64(st[yy][xx], bytes_to_lane(Chunk(chunk, 8, i)))
           ELSE st[yy][xx]])])

\* SHA3_256::theta
theta(st) ==
    LET c == Tup([xx \in 1..5 |->
                 Xor64(Xor64(Xor64(Xor64(st[1][xx], st[2][xx]), st[3][xx]), st[4][xx]), st[5][xx])])
        d == Tup([xx \in 1..5 |->
                 Xor64(c[(((xx - 1) + 4) % 5) + 1], rotate_left(c[(((xx - 1) + 1) % 5) + 1], 1))])
    IN Tup([yy \in 1..5 |-> Tup([xx \in 1..5 |-> Xor64(st[yy][xx], d[xx])])])

\* SHA3_256::rho_pi: new_state[(2x + 3y) % 5][y] = rotate_left(state[y][x], RHO_OFFSETS[5y + x]);
\* (x, y) -> (y, (2x + 3y) % 5) is a bijection, so each new lane has exactly one source
rho_pi(st) ==
    Tup([ny \in 1..5 |-> Tup([nx \in 1..5 |->
        LET y == nx - 1
            x == CHOOSE x \in 0..4 : (2 * x + 3 * y) % 5 = ny - 1
        IN rotate_left(st[y + 1][x + 1], RHO_OFFSETS[5 * y + x + 1])])])

\* SHA3_256::chi
chi(st) ==
    Tup([yy \in 1..5 |-> Tup([xx \in 1..5 |->
        Xor64(st[yy][xx],
              And64(Not64(st[yy][(((xx - 1) + 1) % 5) + 1]), st[yy][(((xx - 1) + 2) % 5) + 1]))])])

\* SHA3_256::iota
iota(st, round) ==
    [st EXCEPT ![1][1] = Xor64(st[1][1], LaneOfHex(ROUND_CONSTANTS[round + 1]))]

\* one iteration of the loop of keccak_f
keccak_round(st, round) == iota(chi(rho_pi(theta(st))), round)

\* SHA3_256::keccak_f, from round `round` on
RECURSIVE keccak_rounds(_, _)
keccak_rounds(st, round) ==
    IF round >= ROUNDS THEN st
    ELSE CHOOSE r \in {keccak_rounds(nxt, round + 1) : nxt \in {keccak_round(st, round)}} : TRUE

keccak_f(st) == keccak_rounds(st, 0)

\* "{:02x}" of a byte: two lowercase hexadecimal characters (ASCII codes)
HexChar(d) == IF d < 10 THEN 48 + d ELSE 97 + (d - 10)
FormatByte02x(b) == <<HexChar(b \div 16), HexChar(b % 16)>>

\* SHA3_256::squeeze: the loop over y, x from lane index i on, output so far `output`
RECURSIVE squeeze_from(_, _, _)
squeeze_from(st, i, output) ==
    LET output_bytes == OUTPUT_LENGTH \div 8
    IN IF i >= 25 \/ Len(output) >= output_bytes THEN output
       ELSE LET lane_bytes == lane_to_bytes(st[(i \div 5) + 1][(i % 5) + 1])
                bytes_to_copy == Min(8, output_bytes - Len(output))
            IN squeeze_from(st, i + 1, output \o SubSeq(lane_bytes, 1, bytes_to_copy))

RECURSIVE HexOfBytes(_)
HexOfBytes(bytes) ==
    IF bytes = <<>> THEN <<>> ELSE FormatByte02x(Head(bytes)) \o HexOfBytes(Tail(bytes))

squeeze(st) == HexOfBytes(squeeze_from(st, 0, <<>>))

\* SHA3_256::digest: the loop over the chunks of the padded input, from chunk i on
RECURSIVE digest_from(_, _, _)
digest_from(st, padded_input, i) ==
    IF i >= NumChunks(padded_input, RATE \div 8) THEN squeeze(st)
    ELSE CHOOSE r \in {digest_from(nxt, padded_input, i + 1) :
                          nxt \in {keccak_f(absorb(st, Chunk(padded_input, RATE \div 8, i)))}} : TRUE

digest(input) == digest_from(NewState, pad(input, 6), 0)

\* SHA3_256::hash and hash_string (a &str is its bytes)
hash(message) == digest(message)
hash_string(message) == hash(message)

\* ------------------------------------------------------------ BigUint
\* A BigUint beyond 2^31 is its sequence of digits in base LIMB, most significant first,
\* without leading zeros (zero is the empty sequence).
LIMB == 2 ^ 16

\* digits of a natural number, least significant first (0 has none)
RECURSIVE NatDigitsLsb(_, _)
NatDigitsLsb(n, radix) ==
    IF n = 0 THEN <<>> ELSE <<n % radix>> \o NatDigitsLsb(n \div radix, radix)

Reverse(s) == [i \in 1..Len(s) |-> s[Len(s) + 1 - i]]

\* drop the leading zeros of a digit sequence, most significant digit first
RECURSIVE StripZeros(_)
StripZeros(ds) == IF ds # <<>> /\ Head(ds) = 0 THEN StripZeros(Tail(ds)) ELSE ds

\* BigUint::to_str_radix(16) of a small number: lowercase, no leading zeros, "0" for zero
to_str_radix16(n) ==
    IF n = 0 THEN <<48>>
    ELSE LET ds == Reverse(NatDigitsLsb(n, 16)) IN [i \in 1..Len(ds) |-> HexChar(ds[i])]

\* value of a hexadecimal character, -1 if it is none
HexValue(c) ==
    IF c >= 48 /\ c <= 57 THEN c - 48
    ELSE IF c >= 97 /\ c <= 102 THEN c - 97 + 10
    ELSE IF c >= 65 /\ c <= 70 THEN c - 65 + 10
    ELSE -1

\* the limbs of a sequence of hexadecimal digit values: four digits to a limb, from the right
LimbsOfHex(hs) ==
    LET n == (Len(hs) + 3) \div 4
        h(j) == IF j >= 1 THEN hs[j] ELSE 0
    IN [i \in 1..n |->
           LET last == Len(hs) - 4 * (n - i)
           IN 4096 * h(last - 3) + 256 * h(last - 2) + 16 * h(last - 1) + h(last)]

\* BigUint::parse_bytes(bytes, 16): None on an empty or malformed string
parse_bytes16(chars) ==
    IF chars = <<>> \/ \E i \in 1..Len(chars) : HexValue(chars[i]) = -1
    THEN [some |-> FALSE, digits |-> <<>>]
    ELSE [some |-> TRUE,
          digits |-> StripZeros(LimbsOfHex([i \in 1..Len(chars) |-> HexValue(chars[i])]))]

\* the natural number a digit sequence stands for (used where it is small)
RECURSIVE DigitsValue(_)
DigitsValue(ds) ==
    IF ds = <<>> THEN 0 ELSE LIMB * DigitsValue(SubSeq(ds, 1, Len(ds) - 1)) + ds[Len(ds)]

\* digits (least significant first) times m plus carry
RECURSIVE MulLsb(_, _, _)
MulLsb(ds, m, carry) ==
    IF ds = <<>> THEN NatDigitsLsb(carry, LIMB)
    ELSE CHOOSE r \in {<<t % LIMB>> \o MulLsb(Tail(ds), m, t \div LIMB) :
                          t \in {Head(ds) * m + carry}} : TRUE

\* BigUint * BigUint and BigUint + BigUint, the second operand small
BigMul(ds, m) == StripZeros(Reverse(MulLsb(Reverse(ds), m, 0)))
BigAdd(ds, n) == StripZeros(Reverse(MulLsb(Reverse(ds), 1, n)))

\* BigUint::modpow with a small exponent: square and multiply
RECURSIVE modpow(_, _, _)
modpow(base, exp, modulus) ==
    IF exp = 0 THEN 1 % modulus
    ELSE CHOOSE r \in {IF exp % 2 = 1
                         THEN (((half * half) % modulus) * (base % modulus)) % modulus
                         ELSE (half * half) % modulus :
                          half \in {modpow(base, exp \div 2, modulus)}} : TRUE

\* BigUint::modpow with the exponent a digit sequence: Horner's rule over the digits from
\* digit i on, acc the power for the digits before i
RECURSIVE modpow_from(_, _, _, _, _)
modpow_from(base, exp, modulus, i, acc) ==
    IF i > Len(exp) THEN acc
    ELSE CHOOSE r \in {modpow_from(base, exp, modulus, i + 1, nxt) :
                          nxt \in {(modpow(acc, LIMB, modulus) * modpow(base, exp[i], modulus))
                                       % modulus}} : TRUE

modpow_digits(base, exp, modulus) == modpow_from(base, exp, modulus, 1, 1 % modulus)

\* BigUint - BigUint: panics when the result would be negative
BigSub(a, b) ==
    IF b > a THEN [panic |-> TRUE, value |-> 0] ELSE [panic |-> FALSE, value |-> a - b]

\* ---------------------------------------------------------------- srp
\* the strings of main: "TEST" and "test"; "tset" is a wrong password
USER == <<84, 69, 83, 84>>
PASSWORD == <<116, 101, 115, 116>>
WRONG_PASSWORD == <<116, 115, 101, 116>>
PASSWORDS == <<PASSWORD, WRONG_PASSWORD>>

\* Option<BigUint>::unwrap_or_default
unwrap_or_default(parsed) == IF parsed.some THEN parsed.digits ELSE <<>>

\* Base::compute_identity_hash, the value it stores
identity_hash_of(salt, user, password) ==
    LET salt_hex == to_str_radix16(salt)
        hash_input == salt_hex \o user \o <<58>> \o password
        hash_hex == hash_string(hash_input)
    IN unwrap_or_default(parse_bytes16(hash_hex))

\* identity_hash_of on the salts and passwords of the model, computed once
IdentityHashTable ==
    Tup([s \in 1..(MaxSalt + 1) |->
        Tup([p \in 1..Len(PASSWORDS) |-> identity_hash_of(s - 1, USER, PASSWORDS[p])])])

\* The big exponents the model can meet: the identity hash x, and private_key + scrambler * x
\* for every private key a and scrambler u of the model
ExponentsOf(x) ==
    {x} \cup {BigAdd(BigMul(x, u), a) : u \in 0..MaxScrambler, a \in 0..MaxKey}
BigExponents ==
    UNION {ExponentsOf(IdentityHashTable[s][p]) :
              s \in 1..(MaxSalt + 1), p \in 1..Len(PASSWORDS)}

\* modpow_digits on those exponents, every modulus and every residue, computed once
ModpowTable ==
    Tup([n \in 1..MaxModulus |-> Tup([r \in 1..n |->
        {[exp |-> e, pow |-> modpow_digits(r - 1, e, n)] : e \in BigExponents}])])

\* BigUint::modpow with a big exponent, looked up: base^exp = (base mod modulus)^exp
modpow_big(base, exp, modulus) ==
    (CHOOSE entry \in ModpowTable[modulus][(base % modulus) + 1] : entry.exp = exp).pow

\* Base::new; private_key is the draw of rng.gen_biguint(key_size)
Base_new(modulus_n, multiplier_k, generator_g, private_key) ==
    [modulus_n |-> DigitsValue(parse_bytes16(modulus_n).digits),
     session_key |-> 0,
     private_key |-> private_key,
     public_key |-> 0,
     salt |-> 0,
     multiplier_k |-> multiplier_k,
     identity_hash |-> <<>>,
     generator_g |-> generator_g,
     scrambler |-> 0]

\* Base::set_salt, and Base::generate_salt and generate_scrambler with their draws
set_salt(self, salt) == [self EXCEPT !.salt = salt]
generate_salt(self, drawn) == [self EXCEPT !.salt = drawn]
generate_scrambler(self, drawn) == [self EXCEPT !.scrambler = drawn]

\* Base::compute_identity_hash
compute_identity_hash(self, user, password) ==
    [self EXCEPT !.identity_hash =
        IdentityHashTable[self.salt + 1][CHOOSE p \in 1..Len(PASSWORDS) : PASSWORDS[p] = password]]

\* a Server::new that reduces the public key modulo the modulus
Server_new_ReducedPublicKey(user, password, modulus_n, multiplier_k, generator_g, salt, scrambler, private_key) ==
    LET base == compute_identity_hash(
                    generate_scrambler(
                        generate_salt(Base_new(modulus_n, multiplier_k, generator_g, private_key),
                                      salt),
                        scrambler),
                    user, password)
        s_verifier == modpow_big(base.generator_g, base.identity_hash, base.modulus_n)
        public_key == (base.multiplier_k * s_verifier
                       + modpow(base.generator_g, base.private_key, base.modulus_n))
                          % base.modulus_n
    IN [base |-> [base EXCEPT !.public_key = public_key], s_verifier |-> s_verifier]

\* Server::new
Server_new(user, password, modulus_n, multiplier_k, generator_g, salt, scrambler, private_key) ==
    LET base == compute_identity_hash(
                    generate_scrambler(
                        generate_salt(Base_new(modulus_n, multiplier_k, generator_g, private_key),
                                      salt),
                        scrambler),
                    user, password)
        s_verifier == modpow_big(base.generator_g, base.identity_hash, base.modulus_n)
        public_key == base.multiplier_k * s_verifier
                      + modpow(base.generator_g, base.private_key, base.modulus_n)
    IN [base |-> [base EXCEPT !.public_key = public_key], s_verifier |-> s_verifier]

\* a Server::compute_session_key that leaves the scrambler out of temp
Server_compute_session_key_NoScrambler(self, public_key) ==
    LET temp == public_key * self.s_verifier
    IN [self EXCEPT !.base.session_key = modpow(temp, self.base.private_key, self.base.modulus_n)]

\* a Server::compute_session_key that keeps a session key once it is not zero
Server_compute_session_key_WriteOnce(self, public_key) ==
    LET temp == public_key * modpow(self.s_verifier, self.base.scrambler, self.base.modulus_n)
    IN IF self.base.session_key # 0 THEN self
       ELSE [self EXCEPT !.base.session_key =
                modpow(temp, self.base.private_key, self.base.modulus_n)]

\* Server::compute_session_key
Server_compute_session_key(self, public_key) ==
    LET temp == public_key * modpow(self.s_verifier, self.base.scrambler, self.base.modulus_n)
    IN [self EXCEPT !.base.session_key = modpow(temp, self.base.private_key, self.base.modulus_n)]

\* Client::new
Client_new(user, password, modulus_n, multiplier_k, generator_g, salt, private_key) ==
    LET base == compute_identity_hash(
                    set_salt(Base_new(modulus_n, multiplier_k, generator_g, private_key), salt),
                    user, password)
    IN [base |-> [base EXCEPT
                    !.public_key = modpow(base.generator_g, base.private_key, base.modulus_n)]]

\* a subtraction that takes the public key modulo the modulus first
Client_subtraction_ReducedFirst(self, pub_key) ==
    BigSub(pub_key % self.base.modulus_n,
           modpow_big(self.base.generator_g, self.base.identity_hash, self.base.modulus_n)
               * self.base.multiplier_k)

\* Client::compute_session_key, the subtraction of lines 174-179
Client_subtraction(self, pub_key) ==
    BigSub(pub_key,
           modpow_big(self.base.generator_g, self.base.identity_hash, self.base.modulus_n)
               * self.base.multiplier_k)

\* a Client::compute_session_key whose exponent is the private key alone
Client_compute_session_key_NoIdentity(self, pub_key, scram) ==
    LET stored == [self EXCEPT !.base.scrambler = scram]
        temp == BigAdd(BigMul(stored.base.identity_hash, 0), stored.base.private_key)
        subtraction == Client_subtraction(stored, pub_key)
    IN IF subtraction.panic
       THEN [panic |-> TRUE, self |-> stored]
       ELSE [panic |-> FALSE,
             self |-> [stored EXCEPT !.base.session_key =
                          modpow_big(subtraction.value, temp, stored.base.modulus_n)]]

\* a Client::compute_session_key that also stores its pub_key argument as public_key
Client_compute_session_key_StoresPubKey(self, pub_key, scram) ==
    LET stored == [self EXCEPT !.base.scrambler = scram, !.base.public_key = pub_key]
        temp == BigAdd(BigMul(stored.base.identity_hash, stored.base.scrambler),
                       stored.base.private_key)
        subtraction == Client_subtraction(stored, pub_key)
    IN IF subtraction.panic
       THEN [panic |-> TRUE, self |-> stored]
       ELSE [panic |-> FALSE,
             self |-> [stored EXCEPT !.base.session_key =
                          modpow_big(subtraction.value, temp, stored.base.modulus_n)]]

\* Client::compute_session_key: the client after the call, and whether the call panicked
\* (the scrambler is stored before the subtraction is evaluated)
Client_compute_session_key(self, pub_key, scram) ==
    LET stored == [self EXCEPT !.base.scrambler = scram]
        temp == BigAdd(BigMul(stored.base.identity_hash, stored.base.scrambler),
                       stored.base.private_key)
        subtraction == Client_subtraction(stored, pub_key)
    IN IF subtraction.panic
       THEN [panic |-> TRUE, self |-> stored]
       ELSE [panic |-> FALSE,
             self |-> [stored EXCEPT !.base.session_key =
                          modpow_big(subtraction.value, temp, stored.base.modulus_n)]]

\* -------------------------------------------------------------- state
VARIABLES
    server,        \* the Server of main
    client,        \* the Client of main
    client_pw,     \* the password the client was built with
    srv_arg,       \* the argument of the latest Server::compute_session_key, NoCall before
    cli_arg,       \* the arguments of the latest Client::compute_session_key, NoCall before
    panicked,      \* the process aborted in a panic
    digest_input,  \* digest: its argument input
    digest_padded, \* digest: its local padded_input
    chunk_index,   \* digest: the chunks of digest_padded the loop has processed
    state,         \* SHA3_256.state
    digest_round,  \* keccak_f: the round its loop is at
    digest_output, \* digest: the string returned
    pc             \* digest: "idle", "pad", "chunks", "keccak_f" or "done"

srp_vars == <<server, client, client_pw, srv_arg, cli_arg, panicked>>
sha3_vars == <<digest_input, digest_padded, chunk_index, state, digest_round, digest_output, pc>>
vars == <<srp_vars, sha3_vars>>

NoCall == <<>>

\* ---------------------------------------------------- the SRP6 exchange
\* no digest is running
Sha3Idle ==
    /\ digest_input = <<>>
    /\ digest_padded = <<>>
    /\ chunk_index = 0
    /\ state = NewState
    /\ digest_round = 0
    /\ digest_output = <<>>
    /\ pc = "idle"

\* the modulus strings main may pass: the hexadecimal numerals of 1..MaxModulus
ModulusStrings == {to_str_radix16(n) : n \in 1..MaxModulus}

\* main, lines 206-225: the Server is built, then the Client with the server's salt
Init ==
    /\ \E modulus \in ModulusStrings, multiplier \in 0..MaxMultiplier,
          generator \in 0..MaxGenerator, salt \in 0..MaxSalt, scrambler \in 0..MaxScrambler,
          b \in 0..MaxKey, a \in 0..MaxKey, pw \in {PASSWORD, WRONG_PASSWORD} :
        /\ server = Server_new(USER, PASSWORD, modulus, multiplier, generator, salt, scrambler, b)
        /\ client = Client_new(USER, pw, modulus, multiplier, generator, server.base.salt, a)
        /\ client_pw = pw
    /\ srv_arg = NoCall
    /\ cli_arg = NoCall
    /\ panicked = FALSE
    /\ Sha3Idle

\* srp_server.compute_session_key(public_key): main passes the client's public key (line 236);
\* another caller may pass any number
ServerComputeSessionKey ==
    /\ ~panicked
    /\ \E public_key \in {client.base.public_key} \cup 0..MaxForged :
        /\ server' = Server_compute_session_key(server, public_key)
        /\ srv_arg' = <<public_key>>
    /\ UNCHANGED <<client, client_pw, cli_arg, panicked, sha3_vars>>

\* srp_client.compute_session_key(pub_key, scram): main passes the server's public key and
\* scrambler (line 237); another caller may pass any number as the public key
ClientComputeSessionKey ==
    /\ ~panicked
    /\ \E pub_key \in {server.base.public_key} \cup 0..MaxForged :
        LET r == Client_compute_session_key(client, pub_key, server.base.scrambler)
        IN /\ client' = r.self
           /\ panicked' = r.panic
           /\ cli_arg' = <<pub_key, server.base.scrambler>>
    /\ UNCHANGED <<server, client_pw, srv_arg, sha3_vars>>

Next == ServerComputeSessionKey \/ ClientComputeSessionKey

Spec == Init /\ [][Next]_vars

\* ------------------------------------------------- SHA3_256::digest
\* no exchange is running
SrpIdle ==
    /\ server = <<>>
    /\ client = <<>>
    /\ client_pw = <<>>
    /\ srv_arg = NoCall
    /\ cli_arg = NoCall
    /\ panicked = FALSE

\* sha3_test.rs, TEST_VECTORS
TEST_VECTORS == <<
    [input |-> <<>>,
     expected |-> "a7ffc6f8bf1ed76651c14756a061d662f580ff4de43b49fa82d80a4b80f8434a"],
    [input |-> <<97, 98, 99>>,
     expected |-> "3a985da74fe225b2045c172d6bd390bd855f086e3e9d525b46bfe24511431532"],
    [input |-> <<97, 98, 99, 100, 98, 99, 100, 101, 99, 100, 101, 102, 100, 101, 102, 103, 101, 102, 103, 104, 102, 103, 104, 105, 103, 104, 105, 106, 104, 105, 106, 107, 105, 106, 107, 108, 106, 107, 108, 109, 107, 108, 109, 110, 108, 109, 110, 111, 109, 110, 111, 112, 110, 111, 112, 113>>,
     expected |-> "41c0dba2a9d6240849100376a8235e2c82e1b9998a999e21db32dd97496d3376"]
>>

\* the messages digest is run on: the test vectors and "a" * (68 * i)
Repeat(byte, n) == [i \in 1..n |-> byte]
HashInputs ==
    {TEST_VECTORS[i].input : i \in 1..Len(TEST_VECTORS)}
        \cup {Repeat(97, 68 * i) : i \in 1..MaxHalfBlocks}

\* SHA3_256::hash(message) is entered: new() has zeroed the state
InitHash ==
    /\ SrpIdle
    /\ digest_input \in HashInputs
    /\ digest_padded = <<>>
    /\ chunk_index = 0
    /\ state = NewState
    /\ digest_round = 0
    /\ digest_output = <<>>
    /\ pc = "pad"

\* digest, line 51
Pad ==
    /\ pc = "pad"
    /\ digest_padded' = pad(digest_input, 6)
    /\ pc' = "chunks"
    /\ UNCHANGED <<digest_input, chunk_index, state, digest_round, digest_output, srp_vars>>

\* digest, line 57: the next chunk is absorbed
Absorb ==
    /\ pc = "chunks"
    /\ chunk_index < NumChunks(digest_padded, RATE \div 8)
    /\ state' = absorb(state, Chunk(digest_padded, RATE \div 8, chunk_index))
    /\ digest_round' = 0
    /\ pc' = "keccak_f"
    /\ UNCHANGED <<digest_input, digest_padded, chunk_index, digest_output, srp_vars>>

\* digest, line 58: one round of keccak_f; after the last the loop of digest goes on
KeccakRound ==
    /\ pc = "keccak_f"
    /\ digest_round < ROUNDS
    /\ state' = keccak_round(state, digest_round)
    /\ digest_round' = digest_round + 1
    /\ IF digest_round + 1 = ROUNDS
       THEN pc' = "chunks" /\ chunk_index' = chunk_index + 1
       ELSE UNCHANGED <<pc, chunk_index>>
    /\ UNCHANGED <<digest_input, digest_padded, digest_output, srp_vars>>

\* digest, line 62
Squeeze ==
    /\ pc = "chunks"
    /\ chunk_index >= NumChunks(digest_padded, RATE \div 8)
    /\ digest_output' = squeeze(state)
    /\ pc' = "done"
    /\ UNCHANGED <<digest_input, digest_padded, chunk_index, state, digest_round, srp_vars>>

NextHash == Pad \/ Absorb \/ KeccakRound \/ Squeeze

SpecHash == InitHash /\ [][NextHash]_vars

\* ---------------------------------------------------- SHA3_256::pad
\* every length 0..MaxPadLen, filled with one of three bytes
PadInputs == {Repeat(byte, n) : byte \in {0, 97, 255}, n \in 0..MaxPadLen}

InitPad ==
    /\ SrpIdle
    /\ digest_input \in PadInputs
    /\ digest_padded = <<>>
    /\ chunk_index = 0
    /\ state = NewState
    /\ digest_round = 0
    /\ digest_output = <<>>
    /\ pc = "pad"

NextPad == Pad

SpecPad == InitPad /\ [][NextPad]_vars

\* ------------------------------------------------------------- claims
\* a String of hexadecimal characters as a TLA+ string
HexString(chars) ==
    LET digit(c) == IF c >= 97 THEN <<"a", "b", "c", "d", "e", "f">>[c - 96]
                    ELSE <<"0", "1", "2", "3", "4", "5", "6", "7", "8", "9">>[c - 47]
        str[i \in 0..Len(chars)] == IF i = 0 THEN "" ELSE str[i - 1] \o digit(chars[i])
    IN str[Len(chars)]

\* FIPS 202 SHA3-256 of "a" * (68 * i), i = 1, 2, ...
REFERENCE_A68 == <<
    "9d42256ee002f2b025f06b18ebfaef7c3cefcb2f9dd9af69edb4712e3fdad933",
    "3fc5559f14db8e453a0a3091edbd2bc25e11528d81c66fa570a4efdcc2695ee1",
    "ee8fee54e5f2c6956791127a028b70782ac1fcc38786b426aedd8ab4fbf67dab",
    "a490357b9b3fb39d0a89a117734e5b020b1f33c7bf3fa3575c396425432003d3",
    "77aa76673267a861d5489a52ea3e4aaf64e7813b5672db4bc77aaa839ab63ab1",
    "2d7a330e30e9df7bbd0e1251c014f9b32985766fcfb9be944698e6353346a917"
>>

\* the reference digest of a message of HashInputs
Reference(message) ==
    IF \E i \in 1..Len(TEST_VECTORS) : TEST_VECTORS[i].input = message
    THEN TEST_VECTORS[CHOOSE i \in 1..Len(TEST_VECTORS) : TEST_VECTORS[i].input = message].expected
    ELSE REFERENCE_A68[Len(message) \div 68]

\* C5: SHA3_256::hash returns the FIPS 202 SHA3-256 digest of its input, as 64 lowercase
\* hexadecimal characters: the digest run step by step, and hash as a function, both give
\* the reference digest of every message of HashInputs (the test vectors "", "abc" and the
\* 56-byte message among them).
C5_HashIsSha3 ==
    pc = "done" =>
        /\ Len(digest_output) = 64
        /\ HexString(digest_output) = Reference(digest_input)
        /\ hash(digest_input) = digest_output

C5_Witness ==
    /\ pc = "done"
    /\ digest_input = TEST_VECTORS[2].input
    /\ HexString(digest_output) = "3a985da74fe225b2045c172d6bd390bd855f086e3e9d525b46bfe24511431532"

\* C6: pad(input, 0x06) is the input followed by 1..136 padding bytes, up to the smallest
\* multiple of 136 strictly greater than the input's length; a single padding byte is 0x86,
\* otherwise the padding is 0x06, zeros, 0x80; an input whose length is a multiple of 136
\* (0 included) gets a full block of 136 padding bytes.
C6_Padding ==
    pc # "pad" =>
        LET L == Len(digest_input)
            P == Len(digest_padded)
        IN /\ P > L
           /\ P - L <= 136
           /\ P % 136 = 0
           /\ P = 136 * ((L \div 136) + 1)
           /\ SubSeq(digest_padded, 1, L) = digest_input
           /\ IF P - L = 1
              THEN digest_padded[P] = 134
              ELSE /\ digest_padded[L + 1] = 6
                   /\ \A i \in (L + 2)..(P - 1) : digest_padded[i] = 0
                   /\ digest_padded[P] = 128
           /\ (L % 136 = 0 => P - L = 136)

\* an input of exactly one block has been padded to two
C6_Witness ==
    /\ pc # "pad"
    /\ Len(digest_input) = 136
    /\ Len(digest_padded) = 272
    /\ digest_padded[137] = 6
    /\ digest_padded[272] = 128

\* the state after the first c chunks of the padded message: each chunk absorbed, then
\* keccak_f applied once
RECURSIVE AbsorbedPrefix(_, _)
AbsorbedPrefix(padded, c) ==
    IF c = 0 THEN NewState
    ELSE keccak_f(absorb(AbsorbedPrefix(padded, c - 1), Chunk(padded, 136, c - 1)))

\* lane i of the state, bit z
LaneBit(st, i, z) == st[(i \div 5) + 1][(i % 5) + 1][z + 1]

\* the step of absorb on the current chunk, bit by bit: lanes 0..16 take the chunk's bytes,
\* lanes 17..24 stay
AbsorbEffect ==
    \A i \in 0..24 :
        IF i <= 16
        THEN \A z \in 0..63 :
                LaneBit(state', i, z) =
                    (LaneBit(state, i, z)
                     + BitOf(digest_padded[136 * chunk_index + 8 * i + (z \div 8) + 1], z % 8)) % 2
        ELSE \A z \in 0..63 : LaneBit(state', i, z) = LaneBit(state, i, z)

\* C9: absorb XORs the i-th little-endian 8-byte lane of a 136-byte block, i = 0..16, into
\* state[i / 5][i % 5] and leaves lanes 17..24 unchanged; keccak_f runs once after each
\* block and not before the first: whenever the loop of digest is at its head, the state is
\* the zero state with each chunk so far absorbed and then permuted once.
C9_Absorb ==
    /\ [][(pc = "chunks" /\ pc' = "keccak_f") => AbsorbEffect]_vars
    /\ [](pc = "chunks" => state = AbsorbedPrefix(digest_padded, chunk_index))

\* the second block of a message has been absorbed into a state whose capacity is not zero
C9_Witness ==
    /\ pc = "keccak_f"
    /\ digest_round = 0
    /\ chunk_index = 1
    /\ state[4][3] # ZeroLane
    /\ state[5][5] # ZeroLane

\* base^e mod n by the definition of the power (the empty product is 1)
PowMod(base, e, n) == IF e = 0 THEN 1 % n ELSE (base ^ e) % n

\* the values a Server and a Client hold
N == server.base.modulus_n
g == server.base.generator_g
k == server.base.multiplier_k
\* main's calls: each side was last handed the other's values
ServerHonest == srv_arg = <<client.base.public_key>>
ClientHonest == cli_arg = <<server.base.public_key, server.base.scrambler>>

\* the parameters the protocol asks for: a prime modulus, a primitive root of it as the
\* generator, a positive multiplier
ValidParameters ==
    /\ N >= 3
    /\ \A d \in 2..(N - 1) : N % d # 0
    /\ {PowMod(g, e, N) : e \in 1..(N - 1)} = 1..(N - 1)
    /\ k >= 1

\* C1: a Server and a Client built with the same user, password and parameters and the
\* server's salt hold the same session key once each has been handed the other's public key
\* (and the client the server's scrambler), in whichever order; the client's call returns.
C1_KeyAgreement ==
    (client_pw = PASSWORD /\ ServerHonest /\ ClientHonest) =>
        /\ ~panicked
        /\ server.base.session_key = client.base.session_key

\* agreement on a key other than 0 and 1, with every secret at work
C1_Witness ==
    /\ client_pw = PASSWORD /\ ServerHonest /\ ClientHonest
    /\ ValidParameters
    /\ server.base.private_key > 0 /\ client.base.private_key > 0
    /\ server.base.scrambler > 0
    /\ server.base.session_key = client.base.session_key
    /\ server.base.session_key > 1

\* C2 as stated: with valid parameters, once both calls have returned the session keys
\* match if and only if the client was built with the server's password.
C2_Original ==
    (ValidParameters /\ ServerHonest /\ ClientHonest /\ ~panicked) =>
        ((server.base.session_key = client.base.session_key) <=> (client_pw = PASSWORD))

\* C2, amended: the keys match if both sides used the same password; session keys that
\* differ after both calls returned show that the identity hashes, hence the passwords,
\* differ (a wrong password does not always give different keys).
C2_MismatchOnlyOnWrongPassword ==
    (ServerHonest /\ ClientHonest /\ ~panicked
        /\ server.base.session_key # client.base.session_key) =>
            /\ client.base.identity_hash # server.base.identity_hash
            /\ client_pw # PASSWORD

\* a wrong password has given different keys
C2_Witness ==
    /\ ValidParameters /\ ServerHonest /\ ClientHonest /\ ~panicked
    /\ client_pw = WRONG_PASSWORD
    /\ server.base.session_key # client.base.session_key

\* the verifier a client's identity hash stands for
ClientVerifier ==
    modpow_big(client.base.generator_g, client.base.identity_hash, client.base.modulus_n)

\* C3 as stated (here for valid parameters): Client::compute_session_key never aborts; when the public key it is handed
\* is below multiplier * (generator^identity_hash mod modulus) the difference is reduced
\* modulo modulus and raised to private_key + scrambler * identity_hash.
C3_UnderflowIsReduced ==
    (ValidParameters /\ cli_arg # NoCall
        /\ cli_arg[1] < client.base.multiplier_k * ClientVerifier) =>
        /\ ~panicked
        /\ client.base.session_key =
             modpow_big(
                 (((cli_arg[1] - client.base.multiplier_k * ClientVerifier) % N) + N) % N,
                 BigAdd(BigMul(client.base.identity_hash, cli_arg[2]), client.base.private_key),
                 N)

\* C4 as stated (here for valid parameters): the server's public key is (k*v + g^b) mod N, below N.
C4_Original ==
    ValidParameters =>
        /\ server.base.public_key
             = (k * server.s_verifier + PowMod(g, server.base.private_key, N)) % N
        /\ server.base.public_key < N
        /\ client.base.public_key = PowMod(g, client.base.private_key, N)
        /\ client.base.public_key < N

\* C4, amended: the server's public key is the unreduced sum k*v + (g^b mod N) with
\* v = g^x mod N, so it lies in 0..(k + 1)(N - 1) and may reach N; the client's public key is
\* g^a mod N, below N.
C4_PublicKeys ==
    /\ server.s_verifier = modpow_big(g, server.base.identity_hash, N)
    /\ server.s_verifier < N
    /\ server.base.public_key = k * server.s_verifier + PowMod(g, server.base.private_key, N)
    /\ server.base.public_key >= 0
    /\ server.base.public_key <= (k + 1) * (N - 1)
    /\ client.base.public_key = PowMod(g, client.base.private_key, N)
    /\ client.base.public_key < N

\* a server whose public key is not below the modulus
C4_Witness ==
    /\ ValidParameters
    /\ server.base.public_key >= N
    /\ server.base.private_key > 0
    /\ client.base.public_key = PowMod(g, client.base.private_key, N)

\* the fields of Base but session_key, and those but session_key and scrambler
Frozen(base) ==
    <<base.modulus_n, base.private_key, base.public_key, base.salt, base.multiplier_k,
      base.identity_hash, base.generator_g, base.scrambler>>
FrozenButScrambler(base) ==
    <<base.modulus_n, base.private_key, base.public_key, base.salt, base.multiplier_k,
      base.identity_hash, base.generator_g>>

\* C7 as stated (here for valid parameters and calls that return): no call of compute_session_key changes a field other than session_key.
C7_Original ==
    [][ValidParameters /\ ~panicked' =>
          /\ Frozen(server'.base) = Frozen(server.base)
          /\ server'.s_verifier = server.s_verifier
          /\ Frozen(client'.base) = Frozen(client.base)]_vars

\* C7, amended: Server::compute_session_key changes only session_key;
\* Client::compute_session_key changes only session_key and scrambler, which it sets to its
\* scrambler argument; every other field keeps the value the constructor gave it.
C7_Frame ==
    [][/\ Frozen(server'.base) = Frozen(server.base)
       /\ server'.s_verifier = server.s_verifier
       /\ FrozenButScrambler(client'.base) = FrozenButScrambler(client.base)
       /\ (cli_arg' = cli_arg /\ panicked' = panicked => client' = client)
       /\ (client' # client => client'.base.scrambler = cli_arg'[2])]_vars

\* both sides were called, and the client's scrambler is no longer the constructor's zero
C7_Witness ==
    /\ srv_arg # NoCall /\ cli_arg # NoCall /\ ~panicked
    /\ client.base.scrambler # 0
    /\ client.base.session_key # 0 /\ server.base.session_key # 0

\* C8 as stated (here for valid parameters): session_key is zero until the first call, and no call changes it after a
\* call has set it.
C8_Original ==
    [][ValidParameters =>
          /\ (srv_arg = NoCall => server.base.session_key = 0)
          /\ (cli_arg = NoCall => client.base.session_key = 0)
          /\ (srv_arg # NoCall => server'.base.session_key = server.base.session_key)
          /\ (cli_arg # NoCall /\ ~panicked' =>
                 client'.base.session_key = client.base.session_key)]_vars

\* C8, amended: session_key is zero from construction until the first compute_session_key
\* call; every call, the first or a later one, overwrites it with the key computed from that
\* call's arguments (so a later call handed another public key can change it).
C8_LatestCallDecides ==
    /\ (srv_arg = NoCall => server.base.session_key = 0)
    /\ (cli_arg = NoCall => client.base.session_key = 0)
    /\ (srv_arg # NoCall =>
          server.base.session_key
            = PowMod(srv_arg[1] * PowMod(server.s_verifier, server.base.scrambler, N),
                     server.base.private_key, N))
    /\ (cli_arg # NoCall /\ ~panicked =>
          client.base.session_key
            = modpow_big(cli_arg[1] - client.base.multiplier_k * ClientVerifier,
                         BigAdd(BigMul(client.base.identity_hash, cli_arg[2]),
                                client.base.private_key),
                         N))

\* each side holds the key of a forged public key, not the key main's call would give
C8_Witness ==
    /\ srv_arg # NoCall /\ ~ServerHonest
    /\ server.base.session_key
         # Server_compute_session_key(server, client.base.public_key).base.session_key
    /\ cli_arg # NoCall /\ ~ClientHonest /\ ~panicked
    /\ client.base.session_key
         # Client_compute_session_key(client, server.base.public_key,
                                      server.base.scrambler).self.base.session_key

\* C10: for a Client built with the server's user, password, parameters and salt, the
\* subtraction server_public_key - multiplier * (generator^identity_hash mod modulus) does
\* not underflow and gives generator^server_private_key mod modulus; the call of main does
\* not panic.
C10_NoUnderflow ==
    client_pw = PASSWORD =>
        /\ server.base.public_key >= client.base.multiplier_k * ClientVerifier
        /\ ~Client_subtraction(client, server.base.public_key).panic
        /\ Client_subtraction(client, server.base.public_key).value
             = PowMod(g, server.base.private_key, N)
        /\ (ClientHonest => ~panicked)

\* main's call has returned where the subtrahend is positive and the public key reaches N
C10_Witness ==
    /\ client_pw = PASSWORD /\ ClientHonest /\ ~panicked
    /\ client.base.multiplier_k * ClientVerifier > 0
    /\ server.base.public_key >= N
    /\ server.base.private_key > 0

====
